---------------------------- MODULE Spec2Model ----------------------------
(***************************************************************************)
(* A model of tabulate.py: the format classifier, the grammar parsers, the *)
(* array-literal extractor, column extraction and the table renderers.     *)
(*                                                                         *)
(* Text is a sequence of one-character strings.  The library routines the  *)
(* program calls (str.strip, str.split, json.loads, json.dumps, re.match,  *)
(* re.findall, csv.reader, csv.writer) are modelled by what they do on the *)
(* characters the input texts below are built from: no backslash, no NUL,  *)
(* no non-ASCII character, and a carriage return only where csv.writer     *)
(* has written one.                                                        *)
(***************************************************************************)
EXTENDS Integers, Sequences, FiniteSets, TLC

VARIABLES
    pc,              \* position of the run / of the operation under study
    text,            \* the raw input text
    format_override, \* parse_input's format_override ("" is None)
    extract_column,  \* parse_input's extract_column (<<>> is None or "")
    preview,         \* args.preview
    inspect,         \* args.inspect
    limit,           \* preview_table's limit (args.preview_rows)
    detected,        \* detect_format's result
    columns,         \* the table's columns
    rows,            \* the table's rows
    error,           \* the message of the exception raised, <<>> when none
    output,          \* the rendered text
    widths,          \* preview_table's local list of column widths
    exit_code,       \* the process exit status (-1 while running)
    value,           \* parse_array_string's argument
    items,           \* parse_array_string's result
    d,               \* flatten_dict's argument
    flattened        \* flatten_dict's result

vars == <<pc, text, format_override, extract_column, preview, inspect, limit, detected,
          columns, rows, error, output, widths, exit_code, value, items, d,
          flattened>>

---------------------------------------------------------------------------
(* Characters and strings *)

DQ == "\""
SQ == "'"
NL == "\n"
TAB == "\t"
SP == " "

\* Characters str.strip() removes and the regex class \s matches.
PyWhitespace == {" ", "\t", "\n", "\r", "\f"}
\* Characters json.loads skips between tokens.
JsonWhitespace == {" ", "\t", "\n", "\r"}
\* Characters a strict JSON string may not hold unescaped.
ControlChars == {"\t", "\n", "\r", "\f"}
Digits == {"0", "1", "2", "3", "4", "5", "6", "7", "8", "9"}
\* The regex class \w.
WordChars == Digits \cup {"a", "b", "c", "x", "A", "B", "_"}

Min(a, b) == IF a <= b THEN a ELSE b
Max(a, b) == IF a >= b THEN a ELSE b

\* n copies of x
Rep(x, n) == [i \in 1..n |-> x]

\* s[a..b], empty when a > b.
Slice(s, a, b) == IF a > b THEN <<>> ELSE SubSeq(s, a, b)

RECURSIVE Concat(_)
Concat(ss) == IF ss = <<>> THEN <<>> ELSE Head(ss) \o Concat(Tail(ss))

\* sep.join(ss)
RECURSIVE Join(_, _)
Join(ss, sep) ==
    IF ss = <<>> THEN <<>>
    ELSE IF Len(ss) = 1 THEN ss[1]
    ELSE ss[1] \o sep \o Join(Tail(ss), sep)

\* Whether p occurs in s at index i.
StartsAt(s, i, p) ==
    /\ i >= 1
    /\ i + Len(p) - 1 <= Len(s)
    /\ \A k \in 1..Len(p) : s[i + k - 1] = p[k]

startswith(s, p) == StartsAt(s, 1, p)
endswith(s, p) == StartsAt(s, Len(s) - Len(p) + 1, p)
Contains(s, c) == \E i \in 1..Len(s) : s[i] = c

\* s.count(c) for a one-character c
Count(s, c) == Cardinality({i \in 1..Len(s) : s[i] = c})

\* s.strip(chars): drop the leading and trailing characters that are in chars.
StripChars(s, chars) ==
    LET keep == {i \in 1..Len(s) : s[i] \notin chars}
    IN IF keep = {} THEN <<>>
       ELSE LET lo == CHOOSE i \in keep : \A j \in keep : i <= j
                hi == CHOOSE i \in keep : \A j \in keep : i >= j
            IN SubSeq(s, lo, hi)

\* s.strip()
strip(s) == StripChars(s, PyWhitespace)

\* s.split(sep) for a one-character sep: always at least one piece.
RECURSIVE SplitFrom(_, _, _, _)
SplitFrom(s, sep, i, acc) ==
    IF i > Len(s) THEN <<acc>>
    ELSE IF s[i] = sep THEN <<acc>> \o SplitFrom(s, sep, i + 1, <<>>)
    ELSE SplitFrom(s, sep, i + 1, Append(acc, s[i]))

split(s, sep) == SplitFrom(s, sep, 1, <<>>)

\* str(n) for an integer n: its decimal digits, with a sign when negative.
DigitChar(k) ==
    CASE k = 0 -> "0" [] k = 1 -> "1" [] k = 2 -> "2" [] k = 3 -> "3"
      [] k = 4 -> "4" [] k = 5 -> "5" [] k = 6 -> "6" [] k = 7 -> "7"
      [] k = 8 -> "8" [] k = 9 -> "9"

RECURSIVE NatStr(_)
NatStr(n) == IF n < 10 THEN <<DigitChar(n)>>
             ELSE Append(NatStr(n \div 10), DigitChar(n % 10))

IntStr(n) == IF n < 0 THEN <<"-">> \o NatStr(-n) ELSE NatStr(n)

\* int(digits) for a run of decimal digits.
DigitVal(c) == CHOOSE k \in 0..9 : DigitChar(k) = c

RECURSIVE DigitsNat(_)
DigitsNat(s) == IF s = <<>> THEN 0
                ELSE DigitsNat(SubSeq(s, 1, Len(s) - 1)) * 10 + DigitVal(s[Len(s)])

\* The pieces of ls that are not blank, each stripped.
RECURSIVE StripNonBlank(_)
StripNonBlank(ls) ==
    IF ls = <<>> THEN <<>>
    ELSE (IF strip(Head(ls)) # <<>> THEN <<strip(Head(ls))>> ELSE <<>>)
         \o StripNonBlank(Tail(ls))

\* [l.strip() for l in text.split("\n") if l.strip()]
StrippedLines(t) == StripNonBlank(split(t, NL))

---------------------------------------------------------------------------
(* json.loads and json.dumps.  A Python value is a tagged record:          *)
(*   int   [t, n]      str  [t, s]      float [t, s] (its lexeme)          *)
(*   none  [t]         bool [t, b]                                         *)
(*   list  [t, items]  dict [t, items] with items a sequence of [k, v],    *)
(*   keys distinct, in insertion order.                                    *)

IntVal(n) == [t |-> "int", n |-> n]
StrVal(s) == [t |-> "str", s |-> s]
FloatVal(s) == [t |-> "float", s |-> s]
NoneVal == [t |-> "none"]
BoolVal(b) == [t |-> "bool", b |-> b]
ListVal(xs) == [t |-> "list", items |-> xs]
DictVal(kvs) == [t |-> "dict", items |-> kvs]

isdict(v) == v.t = "dict"
islist(v) == v.t = "list"

\* dict(pairs): a later pair with a key already present replaces its value
\* and keeps the key's first position.
RECURSIVE DictPut(_, _, _)
DictPut(kvs, k, v) ==
    IF kvs = <<>> THEN << [k |-> k, v |-> v] >>
    ELSE IF Head(kvs).k = k THEN << [k |-> k, v |-> v] >> \o Tail(kvs)
    ELSE << Head(kvs) >> \o DictPut(Tail(kvs), k, v)

RECURSIVE DictOfFrom(_, _, _)
DictOfFrom(pairs, i, acc) ==
    IF i > Len(pairs) THEN acc
    ELSE DictOfFrom(pairs, i + 1, DictPut(acc, pairs[i].k, pairs[i].v))

DictOf(pairs) == DictOfFrom(pairs, 1, <<>>)

HasKey(kvs, k) == \E i \in 1..Len(kvs) : kvs[i].k = k
Keys(kvs) == [i \in 1..Len(kvs) |-> kvs[i].k]
\* kvs[k], for a key that is present
Lookup(kvs, k) == kvs[CHOOSE i \in 1..Len(kvs) : kvs[i].k = k].v

\* The scanner's result: a value and the index after it, or a failure
\* (json.JSONDecodeError).
JsonFail == [ok |-> FALSE, val |-> NoneVal, end |-> 0]
JsonOk(v, e) == [ok |-> TRUE, val |-> v, end |-> e]

RECURSIVE SkipWs(_, _)
SkipWs(s, i) ==
    IF i <= Len(s) /\ s[i] \in JsonWhitespace THEN SkipWs(s, i + 1) ELSE i

\* The end of the run of digits that starts at i (i itself when there is none).
RECURSIVE DigitRun(_, _)
DigitRun(s, i) == IF i <= Len(s) /\ s[i] \in Digits THEN DigitRun(s, i + 1) ELSE i

\* py_scanstring, strict, from the character after the opening quote.
RECURSIVE ScanString(_, _, _)
ScanString(s, i, acc) ==
    IF i > Len(s) THEN JsonFail
    ELSE IF s[i] = DQ THEN JsonOk(StrVal(acc), i + 1)
    ELSE IF s[i] \in ControlChars THEN JsonFail
    ELSE ScanString(s, i + 1, Append(acc, s[i]))

\* NUMBER_RE: (-?(?:0|[1-9]\d*))(\.\d+)?([eE][-+]?\d+)?  matched at i.
\* The end of the integer part whose first digit is at j; 0 when none.
IntPartEnd(s, j) ==
    IF j > Len(s) \/ s[j] \notin Digits THEN 0
    ELSE IF s[j] = "0" THEN j + 1
    ELSE DigitRun(s, j)

\* The index after a fraction that starts at e, e when there is none.
FracPartEnd(s, e) ==
    IF e <= Len(s) /\ s[e] = "." /\ e + 1 <= Len(s) /\ s[e + 1] \in Digits
    THEN DigitRun(s, e + 1) ELSE e

\* The index after an exponent that starts at e, e when there is none.
ExpPartEnd(s, e) ==
    IF e <= Len(s) /\ s[e] \in {"e", "E"}
    THEN (IF e + 1 <= Len(s) /\ s[e + 1] \in Digits THEN DigitRun(s, e + 1)
          ELSE IF e + 2 <= Len(s) /\ s[e + 1] \in {"-", "+"} /\ s[e + 2] \in Digits
               THEN DigitRun(s, e + 2)
          ELSE e)
    ELSE e

NumberValue(s, i, j, intEnd, numEnd) ==
    IF numEnd = intEnd
    THEN JsonOk(IntVal((IF j > i THEN -1 ELSE 1) * DigitsNat(SubSeq(s, j, intEnd - 1))),
                intEnd)
    ELSE JsonOk(FloatVal(SubSeq(s, i, numEnd - 1)), numEnd)

NumberFrom(s, i, j, intEnd) ==
    IF intEnd = 0 THEN JsonFail
    ELSE NumberValue(s, i, j, intEnd, ExpPartEnd(s, FracPartEnd(s, intEnd)))

NumberAfterSign(s, i, j) == NumberFrom(s, i, j, IntPartEnd(s, j))

ScanNumber(s, i) ==
    NumberAfterSign(s, i, IF i <= Len(s) /\ s[i] = "-" THEN i + 1 ELSE i)

LitNull == <<"n", "u", "l", "l">>
LitTrue == <<"t", "r", "u", "e">>
LitFalse == <<"f", "a", "l", "s", "e">>
LitNaN == <<"N", "a", "N">>
LitInfinity == <<"I", "n", "f", "i", "n", "i", "t", "y">>
LitNegInfinity == <<"-", "I", "n", "f", "i", "n", "i", "t", "y">>

\* The scanner's last cases: a number, else NaN, Infinity, -Infinity.
NumberOrConstant(s, i, num) ==
    IF num.ok THEN num
    ELSE IF StartsAt(s, i, LitNaN) THEN JsonOk(FloatVal(<<"n", "a", "n">>), i + 3)
    ELSE IF StartsAt(s, i, LitInfinity) THEN JsonOk(FloatVal(<<"i", "n", "f">>), i + 8)
    ELSE IF StartsAt(s, i, LitNegInfinity)
         THEN JsonOk(FloatVal(<<"-", "i", "n", "f">>), i + 9)
    ELSE JsonFail

\* json.scanner's scan_once with JSONArray and JSONObject.
RECURSIVE ScanOnce(_, _)
RECURSIVE ScanArray(_, _, _)
RECURSIVE ScanObject(_, _, _)

\* After an element that ends before e (whitespace skipped): ']' or ','.
ArrayNext(s, e, acc) ==
    IF e > Len(s) THEN JsonFail
    ELSE IF s[e] = "]" THEN JsonOk(ListVal(acc), e + 1)
    ELSE IF s[e] # "," THEN JsonFail
    ELSE ScanArray(s, SkipWs(s, e + 1), acc)

ArrayElement(s, r, acc) ==
    IF ~r.ok THEN JsonFail ELSE ArrayNext(s, SkipWs(s, r.end), Append(acc, r.val))

\* JSONArray from the first element, at i.
ScanArray(s, i, acc) == ArrayElement(s, ScanOnce(s, i), acc)

\* After a key's value that ends before e: '}' or ',' and the next key at n.
ObjectNext(s, e, n, pairs) ==
    IF e > Len(s) THEN JsonFail
    ELSE IF s[e] = "}" THEN JsonOk(DictVal(DictOf(pairs)), e + 1)
    ELSE IF s[e] # "," THEN JsonFail
    ELSE IF n > Len(s) \/ s[n] # DQ THEN JsonFail
    ELSE ScanObject(s, n, pairs)

ObjectAfterValue(s, e, pairs) == ObjectNext(s, e, SkipWs(s, e + 1), pairs)

ObjectValue(s, key, r, acc) ==
    IF ~r.ok THEN JsonFail
    ELSE ObjectAfterValue(s, SkipWs(s, r.end), Append(acc, [k |-> key, v |-> r.val]))

ObjectColon(s, key, c, acc) ==
    IF c > Len(s) \/ s[c] # ":" THEN JsonFail
    ELSE ObjectValue(s, key, ScanOnce(s, SkipWs(s, c + 1)), acc)

ObjectKey(s, k, acc) ==
    IF ~k.ok THEN JsonFail ELSE ObjectColon(s, k.val.s, SkipWs(s, k.end), acc)

\* JSONObject from a key whose opening quote is at i.
ScanObject(s, i, acc) == ObjectKey(s, ScanString(s, i + 1, <<>>), acc)

\* JSONObject after '{', at the first character j that is not whitespace.
ObjectOpen(s, j) ==
    IF j > Len(s) THEN JsonFail
    ELSE IF s[j] = "}" THEN JsonOk(DictVal(<<>>), j + 1)
    ELSE IF s[j] # DQ THEN JsonFail
    ELSE ScanObject(s, j, <<>>)

\* JSONArray after '[', at the first character j that is not whitespace.
ArrayOpen(s, j) ==
    IF j <= Len(s) /\ s[j] = "]" THEN JsonOk(ListVal(<<>>), j + 1)
    ELSE ScanArray(s, j, <<>>)

ScanOnce(s, i) ==
    IF i > Len(s) THEN JsonFail
    ELSE IF s[i] = DQ THEN ScanString(s, i + 1, <<>>)
    ELSE IF s[i] = "{" THEN ObjectOpen(s, SkipWs(s, i + 1))
    ELSE IF s[i] = "[" THEN ArrayOpen(s, SkipWs(s, i + 1))
    ELSE IF StartsAt(s, i, LitNull) THEN JsonOk(NoneVal, i + 4)
    ELSE IF StartsAt(s, i, LitTrue) THEN JsonOk(BoolVal(TRUE), i + 4)
    ELSE IF StartsAt(s, i, LitFalse) THEN JsonOk(BoolVal(FALSE), i + 5)
    ELSE NumberOrConstant(s, i, ScanNumber(s, i))

\* The whole of s must be one value and whitespace.
WholeValue(s, r) == IF r.ok /\ SkipWs(s, r.end) > Len(s) THEN r ELSE JsonFail

\* json.loads(s): [ok, val]; ok is FALSE where json.JSONDecodeError is raised.
\* One value between optional whitespace, and nothing after it.
json_loads(s) == WholeValue(s, ScanOnce(s, SkipWs(s, 1)))

\* The characters of a string literal, as a sequence of one-character strings.
Chars(str) == [i \in 1..Len(str) |-> SubSeq(str, i, i)]

CommaSpace == <<",", " ">>

\* repr(s) for a str: single-quoted unless s holds a single and no double
\* quote; a quote of the chosen kind and a backslash are escaped.
RECURSIVE EscapeFor(_, _)
EscapeFor(s, q) ==
    IF s = <<>> THEN <<>>
    ELSE (IF Head(s) = q \/ Head(s) = "\\" THEN <<"\\", Head(s)>> ELSE <<Head(s)>>)
         \o EscapeFor(Tail(s), q)

ReprStr(s) ==
    IF Contains(s, SQ) /\ ~Contains(s, DQ)
    THEN <<DQ>> \o EscapeFor(s, DQ) \o <<DQ>>
    ELSE <<SQ>> \o EscapeFor(s, SQ) \o <<SQ>>

\* repr(v), and str(v), which differs from it on a str alone.
RECURSIVE repr(_)
RECURSIVE ReprItems(_)
RECURSIVE ReprEntries(_)
ReprItems(xs) == [i \in 1..Len(xs) |-> repr(xs[i])]
ReprEntries(kvs) ==
    [i \in 1..Len(kvs) |-> ReprStr(kvs[i].k) \o <<":", " ">> \o repr(kvs[i].v)]
repr(v) ==
    CASE v.t = "int" -> IntStr(v.n)
      [] v.t = "str" -> ReprStr(v.s)
      [] v.t = "float" -> v.s
      [] v.t = "none" -> Chars("None")
      [] v.t = "bool" -> IF v.b THEN Chars("True") ELSE Chars("False")
      [] v.t = "list" -> <<"[">> \o Join(ReprItems(v.items), CommaSpace) \o <<"]">>
      [] v.t = "dict" -> <<"{">> \o Join(ReprEntries(v.items), CommaSpace) \o <<"}">>

str(v) == IF v.t = "str" THEN v.s ELSE repr(v)

\* [str(item) for item in xs]
StrItems(xs) == [i \in 1..Len(xs) |-> str(xs[i])]

\* json.dumps(v) with the default separators.
DumpsStr(s) == <<DQ>> \o EscapeFor(s, DQ) \o <<DQ>>

RECURSIVE json_dumps(_)
RECURSIVE DumpsItems(_)
RECURSIVE DumpsEntries(_)
DumpsItems(xs) == [i \in 1..Len(xs) |-> json_dumps(xs[i])]
DumpsEntries(kvs) ==
    [i \in 1..Len(kvs) |-> DumpsStr(kvs[i].k) \o <<":", " ">> \o json_dumps(kvs[i].v)]
json_dumps(v) ==
    CASE v.t = "int" -> IntStr(v.n)
      [] v.t = "str" -> DumpsStr(v.s)
      [] v.t = "float" -> v.s
      [] v.t = "none" -> Chars("null")
      [] v.t = "bool" -> IF v.b THEN Chars("true") ELSE Chars("false")
      [] v.t = "list" -> <<"[">> \o Join(DumpsItems(v.items), CommaSpace) \o <<"]">>
      [] v.t = "dict" -> <<"{">> \o Join(DumpsEntries(v.items), CommaSpace) \o <<"}">>

---------------------------------------------------------------------------
(* Format detection *)

LblEmpty == Chars("empty")
LblJsonArrayObjects == Chars("json-array-objects")
LblJsonArray == Chars("json-array")
LblJsonObject == Chars("json-object")
LblJsonl == Chars("jsonl")
LblPythonKv == Chars("python-kv")
LblKv == Chars("kv")
LblList == Chars("list")
LblLines == Chars("lines")
LblDelimPrefix == Chars("delim:")

\* The number of lines[1..n] that json.loads accepts.
RECURSIVE JsonLineCount(_, _)
JsonLineCount(lines, n) ==
    IF n = 0 THEN 0
    ELSE JsonLineCount(lines, n - 1) + (IF json_loads(lines[n]).ok THEN 1 ELSE 0)

\* The end of the run of characters of class cls that starts at i.
RECURSIVE RunEnd(_, _, _)
RunEnd(s, i, cls) == IF i <= Len(s) /\ s[i] \in cls THEN RunEnd(s, i + 1, cls) ELSE i

\* \['.+?'\] matched at i: the indices after each match the lazy .+? can give,
\* that is after every "']" that follows "['" and at least one character.
QuotedBracketEnds(s, i) ==
    IF ~StartsAt(s, i, <<"[", SQ>>) THEN {}
    ELSE {j + 2 : j \in {j \in (i + 3)..Len(s) :
                           /\ StartsAt(s, j, <<SQ, "]">>)
                           /\ \A k \in (i + 2)..(j - 1) : s[k] # NL}}

\* re.search(r"\['.+?'\]\s*:\s*\['.+?'\]", text)
PythonKvSearch(s) ==
    \E i \in 1..Len(s) : \E e \in QuotedBracketEnds(s, i) :
        \E c \in e..Len(s) :
            /\ \A k \in e..(c - 1) : s[k] \in PyWhitespace
            /\ s[c] = ":"
            /\ \E b \in (c + 1)..Len(s) :
                 /\ \A k \in (c + 1)..(b - 1) : s[k] \in PyWhitespace
                 /\ QuotedBracketEnds(s, b) # {}

\* re.match(r"^[^:=]+[:=].+", line): the first ':' or '=' is neither the first
\* character nor the last, and no newline follows it at once.
KvSeps == {":", "="}
KvMatch(line) ==
    \E i \in 2..(Len(line) - 1) :
        /\ line[i] \in KvSeps
        /\ \A k \in 1..(i - 1) : line[k] \notin KvSeps
        /\ line[i + 1] # NL

\* re.match(r"^(\s*[-*•]\s+|\s*\d+\.\s+|\s*\[[ x]\]\s+)", line): the index
\* after the marker and its whitespace, 0 when there is no match.
Bullets == {"-", "*"}
ListMarkerEnd(line) ==
    LET i == RunEnd(line, 1, PyWhitespace)
        dEnd == RunEnd(line, i, Digits)
        afterMark ==
            IF i <= Len(line) /\ line[i] \in Bullets THEN i + 1
            ELSE IF dEnd > i /\ dEnd <= Len(line) /\ line[dEnd] = "." THEN dEnd + 1
            ELSE IF i + 2 <= Len(line) /\ line[i] = "[" /\ line[i + 1] \in {" ", "x"}
                    /\ line[i + 2] = "]" THEN i + 3
            ELSE 0
        wsEnd == RunEnd(line, afterMark, PyWhitespace)
    IN IF afterMark = 0 \/ wsEnd = afterMark THEN 0 ELSE wsEnd

ListMatch(line) == ListMarkerEnd(line) > 0

RECURSIVE KvMatchCount(_, _)
KvMatchCount(lines, n) ==
    IF n = 0 THEN 0
    ELSE KvMatchCount(lines, n - 1) + (IF KvMatch(lines[n]) THEN 1 ELSE 0)

RECURSIVE ListMatchCount(_, _)
ListMatchCount(lines, n) ==
    IF n = 0 THEN 0
    ELSE ListMatchCount(lines, n - 1) + (IF ListMatch(lines[n]) THEN 1 ELSE 0)

\* The candidate delimiters of detect_format, in the order tried.
Delimiters == <<TAB, ",", "|", ";">>

JsonlSample == 20
DelimSample == 10

\* DelimFits without the test that every sampled line holds the delimiter.
DelimFitsNoMin(lines, delim) ==
    LET n == Min(Len(lines), DelimSample)
        counts == [i \in 1..n |-> Count(lines[i], delim)]
        lo == CHOOSE c \in {counts[i] : i \in 1..n} : \A i \in 1..n : c <= counts[i]
        hi == CHOOSE c \in {counts[i] : i \in 1..n} : \A i \in 1..n : c >= counts[i]
    IN n > 0 /\ hi - lo <= 1

\* min(counts) > 0 and max(counts) - min(counts) <= 1 over lines[:10]
DelimFits(lines, delim) ==
    LET n == Min(Len(lines), DelimSample)
        counts == [i \in 1..n |-> Count(lines[i], delim)]
        lo == CHOOSE c \in {counts[i] : i \in 1..n} : \A i \in 1..n : c <= counts[i]
        hi == CHOOSE c \in {counts[i] : i \in 1..n} : \A i \in 1..n : c >= counts[i]
    IN n > 0 /\ lo > 0 /\ hi - lo <= 1

RECURSIVE FirstDelim(_, _)
FirstDelim(lines, k) ==
    IF k > Len(Delimiters) THEN LblLines
    ELSE IF DelimFits(lines, Delimiters[k]) THEN LblDelimPrefix \o <<Delimiters[k]>>
    ELSE FirstDelim(lines, k + 1)

\* Rules 4 to 9, on the trimmed text and its non-blank lines.
ByLines(t, lines, sample) ==
    IF 10 * JsonLineCount(lines, sample) >= 7 * sample THEN LblJsonl
    ELSE IF PythonKvSearch(t) THEN LblPythonKv
    ELSE IF 2 * KvMatchCount(lines, Len(lines)) >= Len(lines) THEN LblKv
    ELSE IF 2 * ListMatchCount(lines, Len(lines)) >= Len(lines) THEN LblList
    ELSE FirstDelim(lines, 1)

ByLinesOf(t, lines) == ByLines(t, lines, Min(Len(lines), JsonlSample))

AllDicts(xs) == \A i \in 1..Len(xs) : isdict(xs[i])

\* Rules 1 to 3, with data the result of json.loads(text).
Classify(t, data) ==
    IF t = <<>> THEN LblEmpty
    ELSE IF startswith(t, <<"[">>) /\ data.ok /\ islist(data.val)
         THEN (IF AllDicts(data.val.items) THEN LblJsonArrayObjects ELSE LblJsonArray)
    ELSE IF startswith(t, <<"{">>) /\ data.ok THEN LblJsonObject
    ELSE ByLinesOf(t, StrippedLines(t))

Trimmed(t) == Classify(t, json_loads(t))

detect_format(raw) == Trimmed(strip(raw))

---------------------------------------------------------------------------
(* csv.reader(io.StringIO(text), delimiter=delimiter): the excel dialect,  *)
(* not strict.  The reader is fed the text line by line (each line ends    *)
(* with its newline) and an end-of-line event after each line.             *)

CsvInit == [st |-> "START_RECORD", fields |-> <<>>, field |-> <<>>,
            recs |-> <<>>, ok |-> TRUE]

\* parse_save_field
SaveField(S, st) == [S EXCEPT !.fields = Append(S.fields, S.field),
                              !.field = <<>>, !.st = st]
AddChar(S, c, st) == [S EXCEPT !.field = Append(S.field, c), !.st = st]

CsvNewlines == {"\n", "\r"}

\* parse_process_char for a character c of a line
CsvChar(S, c, delim) ==
    CASE S.st = "START_RECORD" /\ c \in CsvNewlines -> [S EXCEPT !.st = "EAT_CRNL"]
      [] S.st \in {"START_RECORD", "START_FIELD"} /\ c \notin CsvNewlines ->
            IF c = DQ THEN [S EXCEPT !.st = "IN_QUOTED_FIELD"]
            ELSE IF c = delim THEN SaveField(S, "START_FIELD")
            ELSE AddChar(S, c, "IN_FIELD")
      [] S.st = "START_FIELD" /\ c \in CsvNewlines -> SaveField(S, "EAT_CRNL")
      [] S.st = "IN_FIELD" ->
            IF c \in CsvNewlines THEN SaveField(S, "EAT_CRNL")
            ELSE IF c = delim THEN SaveField(S, "START_FIELD")
            ELSE AddChar(S, c, "IN_FIELD")
      [] S.st = "IN_QUOTED_FIELD" ->
            IF c = DQ THEN [S EXCEPT !.st = "QUOTE_IN_QUOTED_FIELD"]
            ELSE AddChar(S, c, "IN_QUOTED_FIELD")
      [] S.st = "QUOTE_IN_QUOTED_FIELD" ->
            IF c = DQ THEN AddChar(S, c, "IN_QUOTED_FIELD")
            ELSE IF c = delim THEN SaveField(S, "START_FIELD")
            ELSE IF c \in CsvNewlines THEN SaveField(S, "EAT_CRNL")
            ELSE AddChar(S, c, "IN_FIELD")
      [] S.st = "EAT_CRNL" ->
            IF c \in CsvNewlines THEN S ELSE [S EXCEPT !.ok = FALSE]

\* The record is complete: Reader_iternext returns the fields.
EmitRecord(S) == [S EXCEPT !.recs = Append(S.recs, S.fields), !.fields = <<>>,
                           !.st = "START_RECORD"]

\* parse_process_char for the end of a line
CsvEol(S) ==
    CASE S.st \in {"START_FIELD", "IN_FIELD", "QUOTE_IN_QUOTED_FIELD"} ->
            EmitRecord(SaveField(S, "START_RECORD"))
      [] S.st \in {"START_RECORD", "EAT_CRNL"} -> EmitRecord(S)
      [] S.st = "IN_QUOTED_FIELD" -> S

\* The input is exhausted: a pending field or an open quoted field ends the
\* last record.
CsvEof(S) ==
    IF S.st # "START_RECORD" /\ (S.field # <<>> \/ S.st = "IN_QUOTED_FIELD")
    THEN EmitRecord(SaveField(S, "START_RECORD"))
    ELSE S

CsvAfterChar(S, c, lineEnds) == IF lineEnds /\ S.ok THEN CsvEol(S) ELSE S

RECURSIVE CsvRun(_, _, _, _)
CsvRun(s, i, delim, S) ==
    IF ~S.ok THEN S
    ELSE IF i > Len(s) THEN CsvEof(S)
    ELSE CsvRun(s, i + 1, delim,
                CsvAfterChar(CsvChar(S, s[i], delim), s[i], s[i] = NL \/ i = Len(s)))

\* list(csv.reader(io.StringIO(text), delimiter=delim)): [ok, recs]; ok is
\* FALSE where csv.Error is raised.
csv_reader(s, delim) == CsvRun(s, 1, delim, CsvInit)

---------------------------------------------------------------------------
(* flatten_dict *)

ScalarTags == {"str", "int", "float", "bool", "none"}
Sep == <<".">>

\* all(isinstance(i, (str, int, float, bool, type(None))) for i in v)
AllScalars(xs) == \A i \in 1..Len(xs) : xs[i].t \in ScalarTags

\* ", ".join(str(i) for i in v)
JoinedScalars(xs) == Join(StrItems(xs), CommaSpace)

\* NewKey without the test of parent_key: the separator is always put.
NewKeyAlwaysSep(parent_key, k) == parent_key \o Sep \o k

\* f"{parent_key}{sep}{k}" if parent_key else k
NewKey(parent_key, k) == IF parent_key # <<>> THEN parent_key \o Sep \o k ELSE k

\* Lines 155-159: the cell a list value becomes.
FlattenList(v) ==
    IF AllScalars(v.items) THEN StrVal(JoinedScalars(v.items))
    ELSE StrVal(json_dumps(v))

\* The loop of lines 151-161 from entry i on: the (key, value) pairs appended
\* to items, where a map value contributes the entries of its own flattening.
RECURSIVE FlattenItems(_, _, _)
FlattenEntry(e, new_key) ==
    IF isdict(e.v) THEN DictOf(FlattenItems(e.v.items, new_key, 1))
    ELSE IF islist(e.v) THEN << [k |-> new_key, v |-> FlattenList(e.v)] >>
    ELSE << [k |-> new_key, v |-> e.v] >>
FlattenItems(kvs, parent_key, i) ==
    IF i > Len(kvs) THEN <<>>
    ELSE FlattenEntry(kvs[i], NewKey(parent_key, kvs[i].k))
         \o FlattenItems(kvs, parent_key, i + 1)

\* flatten_dict(d): d and the result are the entry sequences of dicts.
flatten_dict(kvs) == DictOf(FlattenItems(kvs, <<>>, 1))

---------------------------------------------------------------------------
(* Grammar parsers.  A parser returns [ok, columns, rows, error]; ok is    *)
(* FALSE where it raises, and error is then the exception's message.       *)

Table(cols, rs) == [ok |-> TRUE, columns |-> cols, rows |-> rs, error |-> <<>>]
Raise(msg) == [ok |-> FALSE, columns |-> <<>>, rows |-> <<>>, error |-> msg]

CsvErrorMessage == Chars("new-line character seen in unquoted field")

\* [""] * n
Blanks(n) == [i \in 1..n |-> <<>>]

\* NormalizeRow without the padding of a short row.
NormalizeRowNoPad(row, max_cols) ==
    IF Len(row) > max_cols THEN SubSeq(row, 1, max_cols) ELSE row

\* NormalizeRow without the truncation of a long row.
NormalizeRowNoTruncate(row, max_cols) ==
    IF Len(row) < max_cols THEN row \o Blanks(max_cols - Len(row)) ELSE row

\* The body of parse_delimited's loop: pad a short row, truncate a long one.
NormalizeRow(row, max_cols) ==
    IF Len(row) < max_cols THEN row \o Blanks(max_cols - Len(row))
    ELSE IF Len(row) > max_cols THEN SubSeq(row, 1, max_cols)
    ELSE row

NormalizedRows(recs, max_cols) ==
    [i \in 1..(Len(recs) - 1) |-> NormalizeRow(recs[i + 1], max_cols)]

DelimitedTable(rd) ==
    IF ~rd.ok THEN Raise(CsvErrorMessage)
    ELSE IF rd.recs = <<>> THEN Table(<<>>, <<>>)
    ELSE Table(rd.recs[1], NormalizedRows(rd.recs, Len(rd.recs[1])))

parse_delimited(s, delimiter) == DelimitedTable(csv_reader(s, delimiter))

---------------------------------------------------------------------------
(* The JSON grammars *)

ColValue == Chars("value")
JsonErrorMessage == Chars("Expecting value")
TypeErrorMessage == Chars("object is not iterable")
AttributeErrorMessage == Chars("object has no attribute 'items'")

\* flatten_dict(item) if isinstance(item, dict) else {"value": item}
Record(item) ==
    IF isdict(item) THEN flatten_dict(item.items)
    ELSE << [k |-> ColValue, v |-> item] >>

\* Lines 173-179 and 217-220: the keys of the records in order of first
\* appearance, each once.
RECURSIVE AddKeys(_, _, _)
AddKeys(all_keys, ks, i) ==
    IF i > Len(ks) THEN all_keys
    ELSE AddKeys(IF \E j \in 1..Len(all_keys) : all_keys[j] = ks[i]
                 THEN all_keys ELSE Append(all_keys, ks[i]),
                 ks, i + 1)

RECURSIVE AllKeys(_, _, _)
AllKeys(flat, i, all_keys) ==
    IF i > Len(flat) THEN all_keys
    ELSE AllKeys(flat, i + 1, AddKeys(all_keys, Keys(flat[i]), 1))

\* RowOf with a column the record lacks dropped instead of left empty.
RowOfPresentOnly(item, all_keys) ==
    LET present == {j \in 1..Len(all_keys) : HasKey(item, all_keys[j])}
        nth(n) == CHOOSE j \in present : Cardinality({q \in present : q < j}) = n - 1
    IN [n \in 1..Cardinality(present) |-> str(Lookup(item, all_keys[nth(n)]))]

\* [str(item.get(key, "")) for key in all_keys]
RowOf(item, all_keys) ==
    [j \in 1..Len(all_keys) |->
        IF HasKey(item, all_keys[j]) THEN str(Lookup(item, all_keys[j])) ELSE <<>>]

RowsOf(flat, all_keys) == [i \in 1..Len(flat) |-> RowOf(flat[i], all_keys)]

RecordsTable(flat, all_keys) == Table(all_keys, RowsOf(flat, all_keys))

Assemble(flat) == RecordsTable(flat, AllKeys(flat, 1, <<>>))

\* for item in data: the elements of a list, the keys of a dict, the
\* characters of a str.
Iterated(v) ==
    CASE v.t = "list" -> v.items
      [] v.t = "dict" -> [i \in 1..Len(v.items) |-> StrVal(v.items[i].k)]
      [] v.t = "str" -> [i \in 1..Len(v.s) |-> StrVal(<<v.s[i]>>)]

\* not data
Falsy(v) ==
    CASE v.t = "list" -> v.items = <<>>
      [] v.t = "dict" -> v.items = <<>>
      [] v.t = "str" -> v.s = <<>>
      [] v.t = "int" -> v.n = 0
      [] v.t = "float" -> FALSE
      [] v.t = "bool" -> ~v.b
      [] v.t = "none" -> TRUE

Iterable(v) == v.t \in {"list", "dict", "str"}

ArrayObjectsOf(data) ==
    IF ~data.ok THEN Raise(JsonErrorMessage)
    ELSE IF Falsy(data.val) THEN Table(<<>>, <<>>)
    ELSE IF ~Iterable(data.val) THEN Raise(TypeErrorMessage)
    ELSE Assemble([i \in 1..Len(Iterated(data.val)) |-> Record(Iterated(data.val)[i])])

parse_json_array_objects(s) == ArrayObjectsOf(json_loads(s))

ArrayOf(data) ==
    IF ~data.ok THEN Raise(JsonErrorMessage)
    ELSE IF ~Iterable(data.val) THEN Raise(TypeErrorMessage)
    ELSE Table(<<ColValue>>,
               [i \in 1..Len(Iterated(data.val)) |-> <<str(Iterated(data.val)[i])>>])

parse_json_array(s) == ArrayOf(json_loads(s))

ObjectTable(flat) == Table(Keys(flat), << [j \in 1..Len(flat) |-> str(flat[j].v)] >>)

ObjectOf(data) ==
    IF ~data.ok THEN Raise(JsonErrorMessage)
    ELSE IF ~isdict(data.val) THEN Raise(AttributeErrorMessage)
    ELSE ObjectTable(flatten_dict(data.val.items))

parse_json_object(s) == ObjectOf(json_loads(s))

\* Lines 209-222: the flattened items of the lines that parse, in order.
RECURSIVE JsonlItems(_, _)
JsonlItem(parsed) == IF parsed.ok THEN << Record(parsed.val) >> ELSE <<>>
JsonlItems(lines, i) ==
    IF i > Len(lines) THEN <<>>
    ELSE JsonlItem(json_loads(lines[i])) \o JsonlItems(lines, i + 1)

parse_jsonl(s) == Assemble(JsonlItems(StrippedLines(s), 1))

---------------------------------------------------------------------------
(* parse_array_string *)

\* The end of the run of characters outside excl that starts at i.
RECURSIVE RunEndNot(_, _, _)
RunEndNot(s, i, excl) ==
    IF i <= Len(s) /\ s[i] \notin excl THEN RunEndNot(s, i + 1, excl) ELSE i

\* s.replace(a, b) for one-character a and b
ReplaceChar(s, a, b) == [i \in 1..Len(s) |-> IF s[i] = a THEN b ELSE s[i]]

\* [x.strip() for x in pieces if x.strip()]
RECURSIVE StripNonEmpty(_)
StripNonEmpty(ps) ==
    IF ps = <<>> THEN <<>>
    ELSE (IF strip(Head(ps)) # <<>> THEN <<strip(Head(ps))>> ELSE <<>>)
         \o StripNonEmpty(Tail(ps))

\* The token pattern '([^']+)'|"([^"]+)"|([^,\[\]'"]+) matched at p: the
\* group's text and the index after the match, end = 0 when no alternative
\* matches at p.
BareExcluded == {",", "[", "]", SQ, DQ}
NoToken == [grp |-> <<>>, end |-> 0]
QuotedToken(s, p, q) ==
    IF q <= Len(s) /\ q > p + 1 THEN [grp |-> SubSeq(s, p + 1, q - 1), end |-> q + 1]
    ELSE NoToken
BareToken(s, p, q) == [grp |-> SubSeq(s, p, q - 1), end |-> q]
TokenAt(s, p) ==
    IF s[p] = SQ THEN QuotedToken(s, p, RunEndNot(s, p + 1, {SQ}))
    ELSE IF s[p] = DQ THEN QuotedToken(s, p, RunEndNot(s, p + 1, {DQ}))
    ELSE IF s[p] \notin BareExcluded THEN BareToken(s, p, RunEndNot(s, p, BareExcluded))
    ELSE NoToken

\* re.findall(pattern, inner) from index p: the groups' texts, in order.
RECURSIVE FindTokens(_, _)
TokenThen(s, p, m) ==
    IF m.end = 0 THEN FindTokens(s, p + 1) ELSE <<m.grp>> \o FindTokens(s, m.end)
FindTokens(s, p) == IF p > Len(s) THEN <<>> ELSE TokenThen(s, p, TokenAt(s, p))

\* value[1:-1] if value.endswith("]") else value[1:]
Inner(v) == IF endswith(v, <<"]">>) THEN Slice(v, 2, Len(v) - 1) ELSE Slice(v, 2, Len(v))

\* Lines 378-383: the comma-separated fallback and the single value.
Fallback(v) ==
    IF Contains(v, ",") THEN StripNonEmpty(split(v, ","))
    ELSE IF v # <<>> THEN <<v>> ELSE <<>>

\* Lines 366-376: manual extraction, then the fallback when it finds nothing.
Manual(v, found) == IF found # <<>> THEN found ELSE Fallback(v)

\* Lines 358-364: the parse with single quotes turned into double quotes.
Lenient(v, parsed) ==
    IF parsed.ok /\ islist(parsed.val) THEN StrItems(parsed.val.items)
    ELSE Manual(v, StripNonEmpty(FindTokens(Inner(v), 1)))

\* Lines 349-354: the strict parse.
Strict(v, parsed) ==
    IF parsed.ok /\ islist(parsed.val) THEN StrItems(parsed.val.items)
    ELSE Lenient(v, json_loads(ReplaceChar(v, SQ, DQ)))

Stripped(v) == IF startswith(v, <<"[">>) THEN Strict(v, json_loads(v)) ELSE Fallback(v)

parse_array_string(v) == Stripped(strip(v))

---------------------------------------------------------------------------
(* parse_python_kv *)

NoPair == [end |-> 0, key |-> <<>>, val |-> <<>>]

\* \['([^']+)'\] matched at p: q is the index of the next single quote after
\* "['".  The index after "']", 0 when there is no match.
QuotedGroupEnd(s, p, q) ==
    IF StartsAt(s, p, <<"[", SQ>>) /\ q > p + 2 /\ StartsAt(s, q, <<SQ, "]">>)
    THEN q + 2 ELSE 0

\* The primary pattern \['([^']+)'\]\s*:\s*\['([^']+)'\] matched at p.
PairValue(s, p, kq, b, vq) ==
    IF QuotedGroupEnd(s, b, vq) = 0 THEN NoPair
    ELSE [end |-> vq + 2, key |-> SubSeq(s, p + 2, kq - 1),
          val |-> SubSeq(s, b + 2, vq - 1)]
PairAfterColon(s, p, kq, b) == PairValue(s, p, kq, b, RunEndNot(s, b + 2, {SQ}))
PairColon(s, p, kq, c) ==
    IF c > Len(s) \/ s[c] # ":" THEN NoPair
    ELSE PairAfterColon(s, p, kq, RunEnd(s, c + 1, PyWhitespace))
PairKey(s, p, kq) ==
    IF QuotedGroupEnd(s, p, kq) = 0 THEN NoPair
    ELSE PairColon(s, p, kq, RunEnd(s, kq + 2, PyWhitespace))
PairAt(s, p) == PairKey(s, p, RunEndNot(s, p + 2, {SQ}))

\* The alternative pattern (\w+)\s*:\s*\[?([^\],\[]+)\]? matched at p, with
\* the regex engine's preferences: the longest key, all the whitespace after
\* the colon, the optional '[' taken; a piece of whitespace is given back to
\* the value when nothing else can start it.
ValueExcluded == {"]", ",", "["}
AltValue(s, p, k, start, e) ==
    [end |-> IF e <= Len(s) /\ s[e] = "]" THEN e + 1 ELSE e,
     key |-> SubSeq(s, p, k - 1), val |-> SubSeq(s, start, e - 1)]
AltFrom(s, p, k, start) == AltValue(s, p, k, start, RunEndNot(s, start, ValueExcluded))
AltAfterColon(s, p, k, c, w) ==
    IF w + 1 <= Len(s) /\ s[w] = "[" /\ s[w + 1] \notin ValueExcluded
    THEN AltFrom(s, p, k, w + 1)
    ELSE IF w <= Len(s) /\ s[w] \notin ValueExcluded THEN AltFrom(s, p, k, w)
    ELSE IF w > c + 1 THEN AltFrom(s, p, k, w - 1)
    ELSE NoPair
AltColon(s, p, k, c) ==
    IF c > Len(s) \/ s[c] # ":" THEN NoPair
    ELSE AltAfterColon(s, p, k, c, RunEnd(s, c + 1, PyWhitespace))
AltKey(s, p, k) == IF k = p THEN NoPair ELSE AltColon(s, p, k, RunEnd(s, k, PyWhitespace))
AltAt(s, p) == AltKey(s, p, RunEnd(s, p, WordChars))

\* re.findall(pattern, text) from index p: the (key, value) groups.
RECURSIVE FindPairs(_, _)
PairThen(s, p, m) ==
    IF m.end = 0 THEN FindPairs(s, p + 1)
    ELSE << [k |-> m.key, v |-> m.val] >> \o FindPairs(s, m.end)
FindPairs(s, p) == IF p > Len(s) THEN <<>> ELSE PairThen(s, p, PairAt(s, p))

RECURSIVE FindAltPairs(_, _)
AltThen(s, p, m) ==
    IF m.end = 0 THEN FindAltPairs(s, p + 1)
    ELSE << [k |-> m.key, v |-> m.val] >> \o FindAltPairs(s, m.end)
FindAltPairs(s, p) == IF p > Len(s) THEN <<>> ELSE AltThen(s, p, AltAt(s, p))

Quotes == {SQ, DQ}

\* Lines 249-255: key_values, a dict from each stripped key to the list of
\* its values in order of appearance.
RECURSIVE AppendValue(_, _, _)
AppendValue(kvs, k, v) ==
    IF kvs = <<>> THEN << [k |-> k, v |-> <<v>>] >>
    ELSE IF Head(kvs).k = k THEN << [k |-> k, v |-> Append(Head(kvs).v, v)] >> \o Tail(kvs)
    ELSE << Head(kvs) >> \o AppendValue(Tail(kvs), k, v)

RECURSIVE GroupByKey(_, _, _)
GroupByKey(matches, i, acc) ==
    IF i > Len(matches) THEN acc
    ELSE GroupByKey(matches, i + 1,
                    AppendValue(acc, strip(matches[i].k),
                                StripChars(strip(matches[i].v), Quotes)))

\* max(len(v) for v in key_values.values())
RECURSIVE MaxValues(_, _)
MaxValues(kvs, i) == IF i > Len(kvs) THEN 0 ELSE Max(Len(kvs[i].v), MaxValues(kvs, i + 1))

\* KvCell that repeats a key's last value instead of padding with "".
KvCellRepeatLast(values, i) == IF i <= Len(values) THEN values[i] ELSE values[Len(values)]

\* values[i] if i < len(values) else ""
KvCell(values, i) == IF i <= Len(values) THEN values[i] ELSE <<>>

KvRows(kvs, max_values) ==
    [i \in 1..max_values |-> [j \in 1..Len(kvs) |-> KvCell(kvs[j].v, i)]]

KvTable(kvs) == Table(Keys(kvs), KvRows(kvs, MaxValues(kvs, 1)))

Grouped(s, matches) ==
    IF matches = <<>> THEN Table(<<ColValue>>, << <<s>> >>)
    ELSE KvTable(GroupByKey(matches, 1, <<>>))

Alternative(s, matches) ==
    IF matches # <<>> THEN Grouped(s, matches) ELSE Grouped(s, FindAltPairs(s, 1))

parse_python_kv(s) == Alternative(s, FindPairs(s, 1))

---------------------------------------------------------------------------
(* parse_kv, parse_list, parse_lines *)

ColKey == Chars("key")
ColItem == Chars("item")

\* The index of the first c in s; s contains c.
IndexOf(s, c) == CHOOSE i \in 1..Len(s) : s[i] = c /\ \A q \in 1..(i - 1) : s[q] # c

\* key, _, value = line.partition(c), stripped
KvRow(line, i) == << strip(Slice(line, 1, i - 1)), strip(Slice(line, i + 1, Len(line))) >>

RECURSIVE KvLines(_, _)
KvLines(lines, i) ==
    IF i > Len(lines) THEN <<>>
    ELSE (IF Contains(lines[i], ":") THEN << KvRow(lines[i], IndexOf(lines[i], ":")) >>
          ELSE IF Contains(lines[i], "=") THEN << KvRow(lines[i], IndexOf(lines[i], "=")) >>
          ELSE <<>>)
         \o KvLines(lines, i + 1)

parse_kv(s) == Table(<<ColKey, ColValue>>, KvLines(StrippedLines(s), 1))

\* re.sub(pattern, "", line).strip()
Cleaned(line, e) == IF e = 0 THEN strip(line) ELSE strip(Slice(line, e, Len(line)))

RECURSIVE ListLines(_, _)
ListLine(cleaned) == IF cleaned # <<>> THEN << <<cleaned>> >> ELSE <<>>
ListLines(lines, i) ==
    IF i > Len(lines) THEN <<>>
    ELSE ListLine(Cleaned(lines[i], ListMarkerEnd(lines[i]))) \o ListLines(lines, i + 1)

parse_list(s) == Table(<<ColItem>>, ListLines(StrippedLines(s), 1))

LinesRows(lines) == [i \in 1..Len(lines) |-> <<lines[i]>>]

parse_lines(s) == Table(<<ColValue>>, LinesRows(StrippedLines(s)))

---------------------------------------------------------------------------
(* extract_column_arrays *)

ColRow == Chars("row")

\* h.lower()
LowerChar(c) ==
    CASE c = "A" -> "a" [] c = "B" -> "b" [] c = "C" -> "c" [] c = "X" -> "x"
      [] OTHER -> c
lower(s) == [i \in 1..Len(s) |-> LowerChar(s[i])]

\* xs.index(x): the first index, 0 where ValueError is raised
ListIndex(xs, x) ==
    IF \E i \in 1..Len(xs) : xs[i] = x
    THEN CHOOSE i \in 1..Len(xs) : xs[i] = x /\ \A q \in 1..(i - 1) : xs[q] # x
    ELSE 0

LowerAll(xs) == [i \in 1..Len(xs) |-> lower(xs[i])]

\* ColIdx with the case-insensitive match tried before the exact one.
ColIdxLowerFirst(headers, column_name) ==
    IF ListIndex(LowerAll(headers), lower(column_name)) > 0
    THEN ListIndex(LowerAll(headers), lower(column_name))
    ELSE ListIndex(headers, column_name)

\* Lines 400-408: col_idx, counted from 1; 0 where ValueError is raised.
ColIdx(headers, column_name) ==
    IF ListIndex(headers, column_name) > 0 THEN ListIndex(headers, column_name)
    ELSE ListIndex(LowerAll(headers), lower(column_name))

NotFoundMessage(headers, column_name) ==
    Chars("Column '") \o column_name \o Chars("' not found. Available: ")
        \o Join(headers, CommaSpace)

\* [[str(row_num), item] for item in items]
ItemRows(row_num, its) == [k \in 1..Len(its) |-> << IntStr(row_num), its[k] >>]

\* Lines 410-419, from data record row_num on.
RECURSIVE ResultRows(_, _, _)
ResultRows(recs, col_idx, row_num) ==
    IF row_num + 1 > Len(recs) THEN <<>>
    ELSE (IF col_idx > Len(recs[row_num + 1]) THEN <<>>
          ELSE ItemRows(row_num, parse_array_string(recs[row_num + 1][col_idx])))
         \o ResultRows(recs, col_idx, row_num + 1)

ExtractAt(recs, column_name, col_idx) ==
    IF col_idx = 0 THEN Raise(NotFoundMessage(recs[1], column_name))
    ELSE Table(<<ColRow, ColValue>>, ResultRows(recs, col_idx, 1))

ExtractFrom(rd, column_name) ==
    IF ~rd.ok THEN Raise(CsvErrorMessage)
    ELSE IF rd.recs = <<>> THEN Table(<<>>, <<>>)
    ELSE ExtractAt(rd.recs, column_name, ColIdx(rd.recs[1], column_name))

extract_column_arrays(s, column_name) == ExtractFrom(csv_reader(s, ","), column_name)

---------------------------------------------------------------------------
(* parse_input *)

\* fmt.split(":", 1)[1]
AfterFirstColon(fmt) ==
    LET i == CHOOSE k \in 1..Len(fmt) :
                 fmt[k] = ":" /\ \A q \in 1..(k - 1) : fmt[q] # ":"
    IN Slice(fmt, i + 1, Len(fmt))

\* The one-character delimiter of a delim:<char> label.
DelimiterOf(fmt) == AfterFirstColon(fmt)[1]

ByFormat(s, fmt) ==
    IF fmt = LblEmpty THEN Table(<<>>, <<>>)
    ELSE IF fmt = LblJsonArrayObjects THEN parse_json_array_objects(s)
    ELSE IF fmt = LblJsonArray THEN parse_json_array(s)
    ELSE IF fmt = LblJsonObject THEN parse_json_object(s)
    ELSE IF fmt = LblJsonl THEN parse_jsonl(s)
    ELSE IF fmt = LblPythonKv THEN parse_python_kv(s)
    ELSE IF fmt = LblKv THEN parse_kv(s)
    ELSE IF fmt = LblList THEN parse_list(s)
    ELSE IF startswith(fmt, LblDelimPrefix)
         THEN parse_delimited(s, DelimiterOf(fmt))
    ELSE parse_lines(s)

\* format_override and extract_column are <<>> where the code has None or "".
parse_input(s, fmt_override, extract) ==
    IF extract # <<>> THEN extract_column_arrays(s, extract)
    ELSE IF fmt_override # <<>> THEN ByFormat(s, fmt_override)
    ELSE ByFormat(s, detect_format(s))

---------------------------------------------------------------------------
(* Output: to_csv (csv.writer, the excel dialect) and preview_table.       *)

\* The characters that make csv.writer quote a field under QUOTE_MINIMAL:
\* the delimiter, the quote character and those of the line terminator.
CsvSpecial == {",", DQ, "\r", "\n"}

\* join_append_data: every quote character of a quoted field is doubled.
RECURSIVE DoubleQuotes(_)
DoubleQuotes(field) ==
    IF field = <<>> THEN <<>>
    ELSE (IF Head(field) = DQ THEN <<DQ, DQ>> ELSE <<Head(field)>>)
         \o DoubleQuotes(Tail(field))

\* A field as written; lone: the field is the only one of its row (a row
\* of one empty field is written as a pair of quotes).
WriteField(field, lone) ==
    IF (\E i \in 1..Len(field) : field[i] \in CsvSpecial) \/ (lone /\ field = <<>>)
    THEN <<DQ>> \o DoubleQuotes(field) \o <<DQ>>
    ELSE field

\* writer.writerow(row)
WriteRow(row) ==
    Join([i \in 1..Len(row) |-> WriteField(row[i], Len(row) = 1)], <<",">>)
    \o <<"\r", NL>>

to_csv(cols, rs) == WriteRow(cols) \o Concat([i \in 1..Len(rs) |-> WriteRow(rs[i])])

MaxWidth == 40

\* --preview-rows' default, line 544
DefaultPreviewRows == 10

\* rows[:limit]
PreviewRows(rs, lim) ==
    IF lim >= 0 THEN Slice(rs, 1, Min(lim, Len(rs)))
    ELSE Slice(rs, 1, Len(rs) + lim)

\* str(row[i]) if i < len(row) else ""  (the cells are strings; i from 1)
CellAt(row, i) == IF i <= Len(row) THEN row[i] ELSE <<>>

\* max(len(v) for v in col_values)
RECURSIVE LongestCell(_, _, _)
LongestCell(all_data, i, k) ==
    IF k > Len(all_data) THEN 0
    ELSE Max(Len(CellAt(all_data[k], i)), LongestCell(all_data, i, k + 1))

\* Widths without the cap of line 484.
WidthsUncapped(cols, all_data) ==
    [i \in 1..Len(cols) |-> LongestCell(all_data, i, 1)]

\* lines 481-484
Widths(cols, all_data) ==
    [i \in 1..Len(cols) |-> Min(LongestCell(all_data, i, 1), MaxWidth)]

\* s.ljust(w)[:w]
Fit(s, w) == IF Len(s) >= w THEN Slice(s, 1, w) ELSE s \o Rep(SP, w - Len(s))

\* " | ".join(... for i in range(len(columns)))
RowLine(row, ws) ==
    Join([i \in 1..Len(ws) |-> Fit(CellAt(row, i), ws[i])], Chars(" | "))

\* "-+-".join("-" * w for w in widths)
Separator(ws) == Join([i \in 1..Len(ws) |-> Rep("-", ws[i])], Chars("-+-"))

\* f"... and {len(rows) - limit} more rows"
MoreLine(n) == Chars("... and ") \o IntStr(n) \o Chars(" more rows")

\* f"\nTotal: {len(columns)} columns, {len(rows)} rows"
TotalLine(cols, rs) ==
    <<NL>> \o Chars("Total: ") \o IntStr(Len(cols)) \o Chars(" columns, ")
    \o IntStr(Len(rs)) \o Chars(" rows")

\* lines 487-502: the lines of the preview
PreviewLines(cols, rs, lim, shown, ws) ==
    <<RowLine(cols, ws), Separator(ws)>>
    \o [k \in 1..Len(shown) |-> RowLine(shown[k], ws)]
    \o (IF Len(rs) > lim THEN <<MoreLine(Len(rs) - lim)>> ELSE <<>>)
    \o <<TotalLine(cols, rs)>>

EmptyTable == Chars("(empty table)")

\* preview_table's local widths ([] where it returns before computing them)
preview_widths(cols, rs, lim) ==
    IF cols = <<>> THEN <<>> ELSE Widths(cols, <<cols>> \o PreviewRows(rs, lim))

Preview(cols, rs, lim, shown) ==
    Join(PreviewLines(cols, rs, lim, shown, Widths(cols, <<cols>> \o shown)), <<NL>>)

preview_table(cols, rs, lim) ==
    IF cols = <<>> THEN EmptyTable ELSE Preview(cols, rs, lim, PreviewRows(rs, lim))

---------------------------------------------------------------------------
(* Input sets.  A text is built from at most MaxLines lines of a fixed     *)
(* vocabulary, joined by newlines.                                         *)

MaxLines == 3

\* The sequences of at most n elements of S.
SeqsUpTo(S, n) == UNION {[1..k -> S] : k \in 0..n}

TextsOf(vocab, n) == {Join(ls, <<NL>>) : ls \in SeqsUpTo(vocab, n)}

\* The values of the variables an operation does not use.
NoRun ==
    /\ format_override = <<>>
    /\ extract_column = <<>>
    /\ detected = <<>>
NoRender ==
    /\ preview = FALSE
    /\ inspect = FALSE
    /\ limit = 0
    /\ output = <<>>
    /\ widths = <<>>
    /\ exit_code = -1
NoTable ==
    /\ columns = <<>>
    /\ rows = <<>>
    /\ error = <<>>
NoArray ==
    /\ value = <<>>
    /\ items = <<>>
NoDict ==
    /\ d = <<>>
    /\ flattened = <<>>

---------------------------------------------------------------------------
(* detect_format on its own *)

DetectVocab ==
    { Chars("a"), Chars("1"), Chars("["), Chars("]"), Chars("{\"a\":1}"),
      Chars("a:1"), Chars("- a,a"), Chars("a,a"), Chars("['a']:['a']"),
      Chars(" "), Chars("a\ta,a"), Chars("a|a;a"), Chars("a;a") }

\* Long texts: k copies of one line then m copies of another, to reach the
\* classifier's samples of the first 20 and the first 10 lines.
MaxRep == 21
RepVocab == { Chars("1"), Chars("a"), Chars("a,a"), Chars("a:1") }
RepTexts ==
    { Join(Rep(p[1], k) \o Rep(p[2], m), <<NL>>) :
        p \in RepVocab \X RepVocab,
        k \in 0..MaxRep, m \in 1..3 }

DetectTexts == TextsOf(DetectVocab, MaxLines) \cup RepTexts

InitDetect ==
    /\ pc = "start"
    /\ text \in DetectTexts
    /\ NoRun /\ NoRender /\ NoTable /\ NoArray /\ NoDict

\* main, line 575: detected = detect_format(text)
DetectFormat ==
    /\ pc = "start"
    /\ detected' = detect_format(text)
    /\ pc' = "classified"
    /\ UNCHANGED <<text, format_override, extract_column, preview, inspect, limit,
                   columns, rows, error, output, widths, exit_code, value,
                   items, d, flattened>>

NextDetect == DetectFormat

SpecDetect == InitDetect /\ [][NextDetect]_vars

\* The classifier's rules as the specification lists them, each with the
\* label it gives, in decision order; the last rule always holds.
RuleLines(t) == StrippedLines(t)
RuleSample(t, n) == SubSeq(RuleLines(t), 1, Min(Len(RuleLines(t)), n))
RuleDelim(t, delim) ==
    LET smp == RuleSample(t, 10)
    IN /\ \A i \in 1..Len(smp) : Count(smp[i], delim) >= 1
       /\ \A i, j \in 1..Len(smp) : Count(smp[i], delim) - Count(smp[j], delim) <= 1
RuleJsonCount(smp) == Cardinality({i \in 1..Len(smp) : json_loads(smp[i]).ok})
RuleKvCount(ls) == Cardinality({i \in 1..Len(ls) : KvMatch(ls[i])})
RuleListCount(ls) == Cardinality({i \in 1..Len(ls) : ListMatch(ls[i])})
RuleAllMaps(v) == \A i \in 1..Len(v.items) : v.items[i].t = "dict"
\* Whether rule r holds of the trimmed text t, whose JSON parse is js.
RuleHoldsOf(t, js, r) ==
    CASE r = 1 -> t = <<>>
      [] r = 2 -> t # <<>> /\ t[1] = "[" /\ js.ok /\ RuleAllMaps(js.val)
      [] r = 3 -> t # <<>> /\ t[1] = "[" /\ js.ok
      [] r = 4 -> t # <<>> /\ t[1] = "{" /\ js.ok
      [] r = 5 -> 10 * RuleJsonCount(RuleSample(t, 20)) >= 7 * Len(RuleSample(t, 20))
      [] r = 6 -> PythonKvSearch(t)
      [] r = 7 -> 2 * RuleKvCount(RuleLines(t)) >= Len(RuleLines(t))
      [] r = 8 -> 2 * RuleListCount(RuleLines(t)) >= Len(RuleLines(t))
      [] r = 9 -> RuleDelim(t, TAB)
      [] r = 10 -> RuleDelim(t, ",")
      [] r = 11 -> RuleDelim(t, "|")
      [] r = 12 -> RuleDelim(t, ";")
      [] r = 13 -> TRUE
RuleLabel ==
    << Chars("empty"), Chars("json-array-objects"), Chars("json-array"),
       Chars("json-object"), Chars("jsonl"), Chars("python-kv"), Chars("kv"),
       Chars("list"), Chars("delim:\t"), Chars("delim:,"), Chars("delim:|"),
       Chars("delim:;"), Chars("lines") >>
FirstRuleOf(t, js) ==
    CHOOSE r \in 1..13 : RuleHoldsOf(t, js, r) /\ \A q \in 1..(r - 1) : ~RuleHoldsOf(t, js, q)
FirstRule(t) == FirstRuleOf(t, json_loads(t))
RuleHolds(t, r) == RuleHoldsOf(t, json_loads(t), r)

\* C1: detect_format returns the label of the earliest rule of the fixed
\* decision order that holds of the trimmed text (empty, JSON array of maps,
\* JSON array, JSON object, jsonl at >= 0.7 of the first 20 lines, python-kv,
\* kv at >= 0.5, list at >= 0.5, the first fitting delimiter over the first
\* 10 lines, lines); a JSON parse failure falls through to the later rules,
\* and the result is one of the closed set of labels.
C1_FirstMatchWins ==
    pc = "classified" =>
        /\ detected = RuleLabel[FirstRule(strip(text))]
        /\ \E r \in 1..13 : detected = RuleLabel[r]

\* A text that starts with '[', fails the JSON parse and is classified by a
\* later rule: kv, which wins over the lines rule that holds as well.
C1_Witness ==
    /\ pc = "classified"
    /\ startswith(strip(text), <<"[">>)
    /\ ~json_loads(strip(text)).ok
    /\ detected = LblKv
    /\ ~RuleHolds(strip(text), 5)
    /\ RuleHolds(strip(text), 7)

---------------------------------------------------------------------------
(* parse_delimited on its own *)

CsvVocab ==
    { <<>>, Chars("a"), Chars("a,b"), Chars("a,b,c|d"), Chars("\"a,b\"|c"),
      Chars("\"x"), Chars("y\",z") }

InitDelimited ==
    /\ pc = "start"
    /\ text \in TextsOf(CsvVocab, MaxLines)
    /\ format_override \in {LblDelimPrefix \o <<",">>, LblDelimPrefix \o <<"|">>}
    /\ extract_column = <<>>
    /\ detected = <<>>
    /\ NoRender /\ NoTable /\ NoArray /\ NoDict

\* Store a parser's result: the table, or the exception it raised.
Returned(r) ==
    /\ pc' = IF r.ok THEN "parsed" ELSE "raised"
    /\ columns' = r.columns
    /\ rows' = r.rows
    /\ error' = r.error

\* parse_input, lines 452-454
ParseDelimited ==
    /\ pc = "start"
    /\ startswith(format_override, LblDelimPrefix)
    /\ Returned(parse_delimited(text, DelimiterOf(format_override)))
    /\ UNCHANGED <<text, format_override, extract_column, preview, inspect, limit, detected,
                   output, widths, exit_code, value, items, d, flattened>>

NextDelimited == ParseDelimited

SpecDelimited == InitDelimited /\ [][NextDelimited]_vars

\* The records csv.reader yields for the text of the state.
Records == csv_reader(text, DelimiterOf(format_override)).recs

\* C3: parse_delimited's columns are the first record; there is one data row
\* per later record, in order; a shorter record keeps its cells and is
\* filled with empty strings up to the header's length, a longer one is cut
\* to its first header-length cells, one of equal length is unchanged.
C3_DelimitedNormalized ==
    (pc = "parsed" /\ Records # <<>>) =>
        /\ columns = Records[1]
        /\ Len(rows) = Len(Records) - 1
        /\ \A i \in 1..Len(rows) :
             /\ Len(rows[i]) = Len(columns)
             /\ \A j \in 1..Len(columns) :
                  rows[i][j] = IF j <= Len(Records[i + 1]) THEN Records[i + 1][j]
                               ELSE <<>>
             /\ Len(Records[i + 1]) = Len(columns) => rows[i] = Records[i + 1]

\* A table parsed from a header of two cells or more, a shorter record with
\* a cell of its own and a longer record.
C3_Witness ==
    /\ pc = "parsed"
    /\ Len(Records) >= 3
    /\ Len(Records[1]) >= 2
    /\ \E i \in 2..Len(Records) : Len(Records[i]) \in 1..(Len(Records[1]) - 1)
    /\ \E i \in 2..Len(Records) : Len(Records[i]) > Len(Records[1])

---------------------------------------------------------------------------
(* parse_array_string on its own *)

MaxValueLen == 4
ArrayAlphabet == {"[", "]", SQ, DQ, ",", "a", " ", "1"}

InitArray ==
    /\ pc = "start"
    /\ value \in SeqsUpTo(ArrayAlphabet, MaxValueLen)
    /\ items = <<>>
    /\ text = <<>>
    /\ NoRun /\ NoRender /\ NoTable /\ NoDict

\* extract_column_arrays, line 416: items = parse_array_string(cell_value)
ParseArrayString ==
    /\ pc = "start"
    /\ items' = parse_array_string(value)
    /\ pc' = "extracted"
    /\ UNCHANGED <<text, format_override, extract_column, preview, inspect, limit, detected,
                   columns, rows, error, output, widths, exit_code, value, d,
                   flattened>>

NextArray == ParseArrayString

SpecArray == InitArray /\ [][NextArray]_vars

\* The trimmed value starts with '[' and neither the strict parse nor the
\* parse with single quotes replaced yields a list.
BothParsesFail(v) ==
    /\ startswith(v, <<"[">>)
    /\ ~json_loads(v).ok
    /\ ~json_loads(ReplaceChar(v, SQ, DQ)).ok

\* The trimmed non-empty token matches of the bracket-stripped interior.
InteriorTokens(v) == StripNonEmpty(FindTokens(Inner(v), 1))

\* C4: for a value that starts with '[' and fails both list parses, the
\* result is exactly the trimmed non-empty token matches of the interior,
\* an empty sequence when there is none: the comma-split / single-value
\* fallback is never applied to a bracketed value.
C4_BracketedNeverFallsBack ==
    (pc = "extracted" /\ BothParsesFail(strip(value))) =>
        items = InteriorTokens(strip(value))

---------------------------------------------------------------------------
(* extract_column_arrays on its own *)

ExtractVocab ==
    { <<>>, Chars("a,A"), Chars("A,b"), Chars("x"), Chars("[p],\"[q,r]\""),
      Chars("\"['s']\",t u"), Chars(",[") }
ExtractNames == {Chars("a"), Chars("A"), Chars("B"), Chars("c")}

InitExtract ==
    /\ pc = "start"
    /\ text \in TextsOf(ExtractVocab, MaxLines)
    /\ extract_column \in ExtractNames
    /\ format_override = <<>>
    /\ detected = <<>>
    /\ NoRender /\ NoTable /\ NoArray /\ NoDict

\* parse_input, lines 428-429
ExtractColumnArrays ==
    /\ pc = "start"
    /\ extract_column # <<>>
    /\ Returned(extract_column_arrays(text, extract_column))
    /\ UNCHANGED <<text, format_override, extract_column, preview, inspect, limit,
                   detected, output, widths, exit_code, value, items, d, flattened>>

NextExtract == ExtractColumnArrays

SpecExtract == InitExtract /\ [][NextExtract]_vars

\* The records of the text read as comma-separated; the first is the header.
CsvRecords == csv_reader(text, ",").recs

\* The header cells that are the name, and those that are the name when
\* letter case is ignored.
ExactMatches == {j \in 1..Len(CsvRecords[1]) : CsvRecords[1][j] = extract_column}
LooseMatches ==
    {j \in 1..Len(CsvRecords[1]) : lower(CsvRecords[1][j]) = lower(extract_column)}
Least(S) == CHOOSE j \in S : \A q \in S : j <= q

\* The target column's index: the first exact match, or without one the
\* first case-insensitive match.
TargetIndex == IF ExactMatches # {} THEN Least(ExactMatches) ELSE Least(LooseMatches)

\* The items of data record i (the record after the header is record 1).
RecordItems(i) ==
    IF TargetIndex <= Len(CsvRecords[i + 1])
    THEN parse_array_string(CsvRecords[i + 1][TargetIndex])
    ELSE <<>>

\* The number of output rows that come from the data records before i.
RECURSIVE RowsBefore(_)
RowsBefore(i) == IF i <= 1 THEN 0 ELSE RowsBefore(i - 1) + Len(RecordItems(i - 1))

\* C5: when the name matches a header cell, the columns are (row, value) and
\* the rows are, record by record in order and item by item in order, one
\* row (i, item) per item extracted from cell c of data record i; a record
\* without a cell at c keeps its number and gives no row; an exact match of
\* the name is taken before a case-insensitive one.
C5_OneRowPerItem ==
    (pc = "parsed" /\ CsvRecords # <<>>) =>
        /\ LooseMatches # {}
        /\ columns = <<Chars("row"), Chars("value")>>
        /\ Len(rows) = RowsBefore(Len(CsvRecords))
        /\ \A i \in 1..(Len(CsvRecords) - 1) :
             \A k \in 1..Len(RecordItems(i)) :
                rows[RowsBefore(i) + k] = <<IntStr(i), RecordItems(i)[k]>>

\* The name matches the second header cell exactly and the first one only
\* when case is ignored; the first data record has no cell there, the second
\* gives two items, which are numbered 2.
C5_Witness ==
    /\ pc = "parsed"
    /\ Len(CsvRecords) = 3
    /\ ExactMatches = {2}
    /\ LooseMatches = {1, 2}
    /\ Len(CsvRecords[2]) = 1
    /\ Len(rows) = 2
    /\ rows[1][1] = <<"2">> /\ rows[2][1] = <<"2">>
    /\ rows[1][2] # rows[2][2]

---------------------------------------------------------------------------
(* preview_table on its own, on the rectangular tables the parsers return *)

MaxColumns == 2
MaxRows == 2
LongCell == Rep("x", MaxWidth + 1)
PreviewCells == {Chars("a"), LongCell}
PreviewLimits == {-1, 0, 1, DefaultPreviewRows}

InitPreview ==
    /\ pc = "start"
    /\ columns \in SeqsUpTo(PreviewCells, MaxColumns)
    /\ rows \in SeqsUpTo([1..Len(columns) -> PreviewCells], MaxRows)
    /\ limit \in PreviewLimits
    /\ preview = TRUE
    /\ inspect = FALSE
    /\ output = <<>>
    /\ widths = <<>>
    /\ exit_code = -1
    /\ error = <<>>
    /\ text = <<>>
    /\ NoRun /\ NoArray /\ NoDict

\* main, line 609: output = preview_table(columns, rows, args.preview_rows)
PreviewTable ==
    /\ pc = "start"
    /\ preview
    /\ output' = preview_table(columns, rows, limit)
    /\ widths' = preview_widths(columns, rows, limit)
    /\ pc' = "rendered"
    /\ UNCHANGED <<text, format_override, extract_column, preview, inspect, limit,
                   detected, columns, rows, error, exit_code, value, items, d,
                   flattened>>

NextPreview == PreviewTable

SpecPreview == InitPreview /\ [][NextPreview]_vars

\* 'Total: <columns> columns, <rows> rows' for the table of the state
Summary ==
    Chars("Total: ") \o IntStr(Len(columns)) \o Chars(" columns, ")
    \o IntStr(Len(rows)) \o Chars(" rows")

\* C7 as stated: for every table, one with no columns or no rows included,
\* and every row limit, the preview ends with the summary of the full
\* column and row counts, and no column's display width exceeds 40.
C7_AlwaysSummary ==
    pc = "rendered" =>
        /\ endswith(output, Summary)
        /\ \A i \in 1..Len(widths) : widths[i] <= 40

\* C7 amended: the same for every table with at least one column; a table
\* with no columns is rendered as '(empty table)', without a summary.
C7_SummaryWithColumns ==
    pc = "rendered" =>
        /\ columns # <<>> =>
             /\ endswith(output, Summary)
             /\ Len(widths) = Len(columns)
             /\ \A i \in 1..Len(widths) : widths[i] <= 40
        /\ columns = <<>> => output = Chars("(empty table)")

\* A preview cut by the limit, of a table with a cell longer than 40
\* characters among the previewed rows: the width is 40 and the summary
\* counts both rows.
C7_Witness ==
    /\ pc = "rendered"
    /\ Len(columns) = 2
    /\ Len(rows) = 2
    /\ limit = 1
    /\ rows[1][1] = LongCell
    /\ widths[1] = 40
    /\ endswith(output, Chars("Total: 2 columns, 2 rows"))

---------------------------------------------------------------------------
(* flatten_dict on its own, then applied to its own result.  A dict is the *)
(* sequence of its entries, keys distinct.                                 *)

MaxKeys == 2
FlattenKeys == {Chars("a"), Chars("b"), Chars("a.b")}
Leaves ==
    { IntVal(1), StrVal(Chars("x")), NoneVal,
      ListVal(<< IntVal(1), StrVal(Chars("x")) >>),
      ListVal(<< ListVal(<<>>) >>) }
InnerDicts ==
    { DictVal(<<>>),
      DictVal(<< [k |-> Chars("b"), v |-> IntVal(2)] >>),
      DictVal(<< [k |-> Chars("b"), v |-> ListVal(<< IntVal(1), IntVal(2) >>)],
                 [k |-> Chars("a"), v |-> StrVal(Chars("y"))] >>),
      DictVal(<< [k |-> Chars("b"),
                  v |-> DictVal(<< [k |-> Chars("a"), v |-> IntVal(3)] >>)] >>) }

\* The dicts of at most n entries over the keys and values.
DictsOf(keys, vals, n) ==
    { kvs \in SeqsUpTo([k : keys, v : vals], n) :
        \A i, j \in 1..Len(kvs) : i # j => kvs[i].k # kvs[j].k }

InitFlatten ==
    /\ pc = "start"
    /\ d \in DictsOf(FlattenKeys, Leaves \cup InnerDicts, MaxKeys)
    /\ flattened = <<>>
    /\ text = <<>>
    /\ NoRun /\ NoRender /\ NoTable /\ NoArray

\* parse_json_object, line 198: flattened = flatten_dict(data)
FlattenDict ==
    /\ pc = "start"
    /\ flattened' = flatten_dict(d)
    /\ pc' = "flattened"
    /\ UNCHANGED <<text, format_override, extract_column, preview, inspect, limit,
                   detected, columns, rows, error, output, widths, exit_code,
                   value, items, d>>

\* flatten_dict applied to the mapping it has returned
FlattenAgain ==
    /\ pc = "flattened"
    /\ d' = flattened
    /\ flattened' = flatten_dict(flattened)
    /\ pc' = "again"
    /\ UNCHANGED <<text, format_override, extract_column, preview, inspect, limit,
                   detected, columns, rows, error, output, widths, exit_code,
                   value, items>>

NextFlatten == FlattenDict \/ FlattenAgain

SpecFlatten == InitFlatten /\ [][NextFlatten]_vars

NoMapValues(kvs) == \A i \in 1..Len(kvs) : ~isdict(kvs[i].v)
NoListValues(kvs) == \A i \in 1..Len(kvs) : ~islist(kvs[i].v)

\* C8 as stated: flatten_dict returns every mapping without map-valued
\* entries unchanged (same keys, same order, same values), and so
\* flattening the result of a flattening changes nothing.
C8_FlatUnchanged ==
    (pc \in {"flattened", "again"} /\ NoMapValues(d)) => flattened = d

\* C8 amended: flatten_dict returns every mapping with neither map-valued
\* nor sequence-valued entries unchanged, and for every input the
\* flattening of a flattened mapping is that mapping.
C8_ScalarFlatUnchanged ==
    /\ (pc \in {"flattened", "again"} /\ NoMapValues(d) /\ NoListValues(d)) =>
          flattened = d
    /\ pc = "again" => flattened = d

\* A flattened mapping that came from a nested one (the key b.a arises only
\* under a map) with a joined sequence among its values has been flattened
\* again.
C8_Witness ==
    /\ pc = "again"
    /\ Len(d) >= 2
    /\ \E i \in 1..Len(d) : StartsAt(d[i].k, Len(d[i].k) - 2, Chars("b.a"))
    /\ \E i \in 1..Len(d) : d[i].v = StrVal(Chars("1, x"))
    /\ flattened = d

---------------------------------------------------------------------------
(* parse_json_array_objects and parse_jsonl on their own.  The text is an  *)
(* array of the chosen elements, or one element per line.                  *)

RecordVocab ==
    { Chars("{\"a\":1}"), Chars("{\"b\":\"x\",\"a\":null}"),
      Chars("{\"a\":{\"c\":[1,2]},\"b\":\"\"}"), Chars("7"), Chars("{"),
      Chars(" "), Chars("{\"value\":true}") }

ArrayText(els) == <<"[">> \o Join(els, <<",">>) \o <<"]">>

InitJsonTable ==
    /\ pc = "start"
    /\ \E els \in SeqsUpTo(RecordVocab, MaxLines) :
          \/ /\ format_override = LblJsonArrayObjects
             /\ text = ArrayText(els)
          \/ /\ format_override = LblJsonl
             /\ text = Join(els, <<NL>>)
    /\ extract_column = <<>>
    /\ detected = <<>>
    /\ NoRender /\ NoTable /\ NoArray /\ NoDict

\* parse_input, lines 438-439
ParseJsonArrayObjects ==
    /\ pc = "start"
    /\ format_override = LblJsonArrayObjects
    /\ Returned(parse_json_array_objects(text))
    /\ UNCHANGED <<text, format_override, extract_column, preview, inspect, limit,
                   detected, output, widths, exit_code, value, items, d, flattened>>

\* parse_input, lines 444-445
ParseJsonl ==
    /\ pc = "start"
    /\ format_override = LblJsonl
    /\ Returned(parse_jsonl(text))
    /\ UNCHANGED <<text, format_override, extract_column, preview, inspect, limit,
                   detected, output, widths, exit_code, value, items, d, flattened>>

NextJsonTable == ParseJsonArrayObjects \/ ParseJsonl

SpecJsonTable == InitJsonTable /\ [][NextJsonTable]_vars

\* The values of the lines that parse as JSON, in line order.
RECURSIVE LineValues(_, _)
LineValues(lines, i) ==
    IF i > Len(lines) THEN <<>>
    ELSE (IF json_loads(lines[i]).ok THEN <<json_loads(lines[i]).val>> ELSE <<>>)
         \o LineValues(lines, i + 1)

\* The values the table is assembled from: the array's elements, or the
\* values of the non-blank lines that parse.
SourceValues ==
    IF format_override = LblJsonl THEN LineValues(StrippedLines(text), 1)
    ELSE json_loads(text).val.items

\* The flattened record of source value i.
SourceRecord(i) == Record(SourceValues[i])

\* Where a column first appears: the first record that has it, and its
\* place among that record's keys.
FirstRecord(c) ==
    CHOOSE i \in 1..Len(SourceValues) :
        /\ HasKey(SourceRecord(i), c)
        /\ \A q \in 1..(i - 1) : ~HasKey(SourceRecord(q), c)
PlaceIn(c, i) == CHOOSE p \in 1..Len(SourceRecord(i)) : SourceRecord(i)[p].k = c
Earlier(c1, c2) ==
    \/ FirstRecord(c1) < FirstRecord(c2)
    \/ /\ FirstRecord(c1) = FirstRecord(c2)
       /\ PlaceIn(c1, FirstRecord(c1)) < PlaceIn(c2, FirstRecord(c2))

\* C9: the table has one row per array element, or per non-blank line that
\* parses, in input order; its columns are the keys of the flattened
\* records, each once, in order of first appearance; a row holds the
\* record's value under each column the record has and the empty string
\* under the others.
C9_AssembledByRecord ==
    (pc = "parsed" /\ (format_override = LblJsonl \/ islist(json_loads(text).val))) =>
        /\ Len(rows) = Len(SourceValues)
        /\ \A i \in 1..Len(SourceValues) : \A p \in 1..Len(SourceRecord(i)) :
              \E j \in 1..Len(columns) : columns[j] = SourceRecord(i)[p].k
        /\ \A j \in 1..Len(columns) :
              \E i \in 1..Len(SourceValues) : HasKey(SourceRecord(i), columns[j])
        /\ \A j, k \in 1..Len(columns) : j < k => Earlier(columns[j], columns[k])
        /\ \A i \in 1..Len(rows) :
              /\ Len(rows[i]) = Len(columns)
              /\ \A j \in 1..Len(columns) :
                    rows[i][j] = IF HasKey(SourceRecord(i), columns[j])
                                 THEN str(Lookup(SourceRecord(i), columns[j]))
                                 ELSE <<>>

\* Lines of which one does not parse and is skipped; the two records that
\* remain have different keys, so each row has an empty cell.
C9_Witness ==
    /\ pc = "parsed"
    /\ format_override = LblJsonl
    /\ Len(StrippedLines(text)) = 3
    /\ Len(rows) = 2
    /\ Len(columns) >= 2
    /\ \E j \in 1..Len(columns) : ~HasKey(SourceRecord(1), columns[j]) /\ rows[1][j] = <<>>
    /\ \E j \in 1..Len(columns) : ~HasKey(SourceRecord(2), columns[j]) /\ rows[2][j] = <<>>

---------------------------------------------------------------------------
(* parse_python_kv on its own.  A text is a run of pieces: pairs in the    *)
(* bracketed notation, pairs in the plain notation, and odds and ends.     *)

MaxTokens == 3
PyKvTokens ==
    { Chars("['k']: ['v']"), Chars("['k']:['w x']"), Chars("['j'] : ['v']"),
      Chars("k: x"), Chars("j:[\"y\"]"), Chars(","), Chars(" "), Chars("['k']"),
      Chars("x") }

InitPyKv ==
    /\ pc = "start"
    /\ \E ts \in SeqsUpTo(PyKvTokens, MaxTokens) : text = Concat(ts)
    /\ format_override = LblPythonKv
    /\ extract_column = <<>>
    /\ detected = <<>>
    /\ NoRender /\ NoTable /\ NoArray /\ NoDict

\* parse_input, lines 446-447
ParsePythonKv ==
    /\ pc = "start"
    /\ format_override = LblPythonKv
    /\ Returned(parse_python_kv(text))
    /\ UNCHANGED <<text, format_override, extract_column, preview, inspect, limit,
                   detected, output, widths, exit_code, value, items, d, flattened>>

NextPyKv == ParsePythonKv

SpecPyKv == InitPyKv /\ [][NextPyKv]_vars

\* The pairs found: those of the bracketed pattern, or without any those of
\* the plain pattern.
Matches == IF FindPairs(text, 1) # <<>> THEN FindPairs(text, 1) ELSE FindAltPairs(text, 1)

\* The key and the value of match m as they are kept: trimmed, the value
\* without the quotes around it.
MatchKey(m) == strip(Matches[m].k)
MatchValue(m) == StripChars(strip(Matches[m].v), Quotes)

\* The matches of a key, and the n-th of them in order of appearance.
MatchesOf(key) == {m \in 1..Len(Matches) : MatchKey(m) = key}
NthMatch(key, n) ==
    CHOOSE m \in MatchesOf(key) : Cardinality({q \in MatchesOf(key) : q < m}) = n - 1

---------------------------------------------------------------------------
(* parse_input with the format guessed: no override, no column extraction. *)
(* The lines include a form feed, which str.strip removes and json.loads   *)
(* does not skip.                                                          *)

GuessVocab ==
    { Chars("[1]"), Chars("{\"a\":1}"), Chars("[{\"a\":1}]"), <<"\f">>,
      Chars(" "), Chars("a,b"), Chars("a: 1"), Chars("- a"), Chars("x"),
      Chars("['k']: ['v']") }

InitGuess ==
    /\ pc = "start"
    /\ text \in TextsOf(GuessVocab, MaxLines)
    /\ NoRun /\ NoRender /\ NoTable /\ NoArray /\ NoDict

\* parse_input, lines 431-456, with format_override and extract_column None:
\* fmt = detect_format(text), then the parser of fmt on the same text
ParseGuessed ==
    /\ pc = "start"
    /\ format_override = <<>>
    /\ extract_column = <<>>
    /\ detected' = detect_format(text)
    /\ Returned(parse_input(text, format_override, extract_column))
    /\ UNCHANGED <<text, format_override, extract_column, preview, inspect, limit,
                   output, widths, exit_code, value, items, d, flattened>>

NextGuess == ParseGuessed

SpecGuess == InitGuess /\ [][NextGuess]_vars

\* C11: with the format guessed, parse_input completes and returns a table
\* for every text; in particular when the label is json-array-objects,
\* json-array or json-object the JSON parser succeeds on the untrimmed text.
C11_GuessNeverFails ==
    pc \in {"parsed", "raised"} => (pc = "parsed" /\ error = <<>>)

---------------------------------------------------------------------------
(* main: classify, parse, then inspect or render and write.  The text has  *)
(* been read; the arguments are those of the command line.                 *)

\* --format's choices, line 540
FormatChoices == {"json", "jsonl", "kv", "list", "csv", "tsv", "lines",
                  "python-kv", "auto"}

\* lines 580-590 (None is the empty string)
format_map ==
    [f \in FormatChoices |->
        CASE f = "json" -> <<>>
          [] f = "jsonl" -> LblJsonl
          [] f = "kv" -> LblKv
          [] f = "list" -> LblList
          [] f = "csv" -> LblDelimPrefix \o <<",">>
          [] f = "tsv" -> LblDelimPrefix \o <<TAB>>
          [] f = "lines" -> LblLines
          [] f = "python-kv" -> LblPythonKv
          [] f = "auto" -> <<>>]

MaxInputLines == 2
InputVocab ==
    { Chars("[{\"a\":1},{\"b\":[1,2]}]"), Chars("{\"a\":{\"b\":1}}"),
      Chars("a,B"), Chars("x,\"[1,2]\",y"), Chars("['k']: ['v']"),
      Chars("- a: 1"), Chars("x"), Chars("[1,\"b\"]"), Chars("- y") }
ColumnNames == {<<>>, Chars("b"), Chars("c")}

Init ==
    /\ pc = "start"
    /\ text \in TextsOf(InputVocab, MaxInputLines)
    /\ \E f \in FormatChoices : format_override = format_map[f]
    /\ extract_column \in ColumnNames
    /\ preview \in BOOLEAN
    /\ inspect \in BOOLEAN
    /\ limit = DefaultPreviewRows
    /\ detected = <<>>
    /\ output = <<>>
    /\ widths = <<>>
    /\ exit_code = -1
    /\ NoTable /\ NoArray /\ NoDict

\* line 575
Detect ==
    /\ pc = "start"
    /\ detected' = detect_format(text)
    /\ pc' = "detected"
    /\ UNCHANGED <<text, format_override, extract_column, preview, inspect, limit,
                   columns, rows, error, output, widths, exit_code, value,
                   items, d, flattened>>

\* lines 594-598: the table, or the message on stderr and exit status 1
Parsed(r) ==
    /\ pc' = IF r.ok THEN "parsed" ELSE "exited"
    /\ exit_code' = IF r.ok THEN exit_code ELSE 1
    /\ columns' = r.columns
    /\ rows' = r.rows
    /\ error' = r.error

Parse ==
    /\ pc = "detected"
    /\ Parsed(parse_input(text, format_override, extract_column))
    /\ UNCHANGED <<text, format_override, extract_column, preview, inspect, limit,
                   detected, output, widths, value, items, d, flattened>>

\* lines 600-605: the schema goes to stderr, nothing is rendered
Inspect ==
    /\ pc = "parsed"
    /\ inspect
    /\ pc' = "exited"
    /\ exit_code' = 0
    /\ UNCHANGED <<text, format_override, extract_column, preview, inspect, limit,
                   detected, columns, rows, error, output, widths, value, items,
                   d, flattened>>

\* lines 608-611
Render ==
    /\ pc = "parsed"
    /\ ~inspect
    /\ output' = IF preview THEN preview_table(columns, rows, limit)
                 ELSE to_csv(columns, rows)
    /\ widths' = IF preview THEN preview_widths(columns, rows, limit) ELSE <<>>
    /\ pc' = "rendered"
    /\ UNCHANGED <<text, format_override, extract_column, preview, inspect, limit,
                   detected, columns, rows, error, exit_code, value, items, d,
                   flattened>>

\* lines 613-622: the output is written and the run ends
Write ==
    /\ pc = "rendered"
    /\ pc' = "exited"
    /\ exit_code' = 0
    /\ UNCHANGED <<text, format_override, extract_column, preview, inspect, limit,
                   detected, columns, rows, error, output, widths, value, items,
                   d, flattened>>

Next == Detect \/ Parse \/ Inspect \/ Render \/ Write

Spec == Init /\ [][Next]_vars


\* The run has a table: parse_input has returned.
HasTable == pc \in {"parsed", "rendered"} \/ (pc = "exited" /\ exit_code = 0)

\* The CSV text has been rendered.
CsvRendered == (pc = "rendered" \/ (pc = "exited" /\ exit_code = 0 /\ ~inspect)) /\ ~preview

\* The records a CSV reader finds in the output.
OutputRecords == csv_reader(output, ",").recs

\* C2: whatever the text, the format (detected or forced) and the
\* extraction mode, every row of the table parse_input returns has as many
\* cells as there are columns, and every record of the CSV output has as
\* many cells as its header record.
C2_Rectangular ==
    /\ HasTable => \A i \in 1..Len(rows) : Len(rows[i]) = Len(columns)
    /\ CsvRendered =>
         /\ Len(OutputRecords) = Len(rows) + 1
         /\ \A i \in 1..Len(OutputRecords) : Len(OutputRecords[i]) = Len(columns)

\* A delimited text with a record shorter than its header and one longer
\* has been parsed into a table of two columns and written as CSV.
C2_Witness ==
    /\ pc = "exited" /\ exit_code = 0 /\ ~preview /\ ~inspect
    /\ startswith(format_override, LblDelimPrefix)
    /\ extract_column = <<>>
    /\ Len(columns) = 2
    /\ Len(rows) = 1
    /\ Len(csv_reader(text, ",").recs[2]) = 3
    /\ Len(OutputRecords[2]) = 2

\* The header record of the text read as comma-separated, [] without one.
Headers ==
    IF csv_reader(text, ",").recs = <<>> THEN <<>> ELSE csv_reader(text, ",").recs[1]
NoHeaderMatches ==
    /\ extract_column # <<>>
    /\ \A h \in 1..Len(Headers) : lower(Headers[h]) # lower(extract_column)
Occurs(s, p) == \E i \in 1..(Len(s) - Len(p) + 1) : StartsAt(s, i, p)
\* C6: when column extraction is requested and no header cell matches the
\* name, exactly or case-insensitively, the run never has a table and never
\* renders: it ends with exit status 1 and an error that names the column
\* and lists the available ones, whatever the text, one with no records
\* included.
C6_MissingColumnFails ==
    (NoHeaderMatches /\ pc \notin {"start", "detected"}) =>
        /\ pc = "exited"
        /\ exit_code = 1
        /\ output = <<>>
        /\ columns = <<>> /\ rows = <<>>
        /\ Occurs(error, extract_column)
        /\ \A h \in 1..Len(Headers) : Occurs(error, Headers[h])


\* The lines of the preview: the header, the separator, the data rows, the
\* '... and N more rows' line when there is one, a blank line, the summary.
Breaks == {0, Len(output) + 1} \cup {i \in 1..Len(output) : output[i] = NL}
NthBreak(n) == CHOOSE b \in Breaks : Cardinality({q \in Breaks : q < b}) = n
LineCount == Cardinality(Breaks) - 1
OutLine(k) == Slice(output, NthBreak(k - 1) + 1, NthBreak(k) - 1)
MorePrefix == Chars("... and ")
MoreSuffix == Chars(" more rows")
MoreLineAt == {k \in 3..LineCount : startswith(OutLine(k), MorePrefix)}

\* The number of data rows rendered.
RenderedRows == LineCount - 4 - Cardinality(MoreLineAt)

\* The N of the '... and N more rows' line, 0 without the line.
MoreCount ==
    IF MoreLineAt = {} THEN 0
    ELSE DigitsNat(Slice(OutLine(Least(MoreLineAt)), Len(MorePrefix) + 1,
                         Len(OutLine(Least(MoreLineAt))) - Len(MoreSuffix)))

\* C12: in the preview of a table with at least one column, for every
\* integer limit, the data rows rendered plus the N of the '... and N more
\* rows' line (0 without the line) are the table's rows, and the line is
\* there exactly when some row is not rendered.
C12_EveryRowAccounted ==
    (pc = "rendered" /\ preview /\ columns # <<>>) =>
        /\ RenderedRows + MoreCount = Len(rows)
        /\ (MoreLineAt # {}) <=> (RenderedRows < Len(rows))

=============================================================================
